---- MODULE Spec2Model ----
(***************************************************************************)
(* Model of src/utils/tree-data-utils.js: the index/path traversals of a   *)
(* collapsible tree (getVisibleNodeCount, getVisibleNodeInfoAtIndex, walk, *)
(* getVisibleNodeInfoFlattened) and the path-addressed copy-on-write edit  *)
(* (changeNodeAtPath, removeNodeAtPath).                                   *)
(*                                                                         *)
(* Every exported function is pure, so a behaviour is: Init draws a tree,  *)
(* one action applies one exported function to it with inputs drawn from   *)
(* small sets and records the call and what came back.                     *)
(***************************************************************************)
EXTENDS Integers, Sequences, FiniteSets, TLC

VARIABLES treeData, call, ret

vars == <<treeData, call, ret>>

(***************************************************************************)
(* Bounds of the model.                                                    *)
(***************************************************************************)
\* Largest number of nodes (at all depths) of a generated tree.
MaxNodes == 4
\* Largest number of nodes of one tree that are not plain (a plain node is
\* a leaf without a children field or a node with a non-empty children
\* array): empty children arrays and lazy children functions.
MaxSpecial == 1

(***************************************************************************)
(* JavaScript values the code computes with.  A tree index is a number,    *)
(* but `undefined` and NaN arise where the code reads a field of a result  *)
(* that has none, so indices carry their JavaScript type.                  *)
(***************************************************************************)
Num(n) == [t |-> "number", v |-> n]
JsUndefined == [t |-> "undefined", v |-> 0]
JsNaN == [t |-> "NaN", v |-> 0]
JsFalse == [t |-> "false", v |-> 0]

IsNum(x) == x.t = "number"

\* x + 1 in JavaScript: undefined + 1 and NaN + 1 are NaN.
Inc(x) == IF IsNum(x) THEN Num(x.v + 1) ELSE JsNaN

\* x === y on indices: NaN equals nothing, not even itself.
StrictEq(x, y) == x.t # "NaN" /\ y.t # "NaN" /\ x = y

(***************************************************************************)
(* Nodes.  ref is the object's identity (two records with the same ref are *)
(* the same JavaScript object); id and type are opaque payload; expanded   *)
(* is the tri-state flag; children is absent (any falsy value), an array   *)
(* of nodes, or a lazy loader function with `arity` declared parameters.   *)
(***************************************************************************)
Absent == [t |-> "absent", items |-> <<>>, arity |-> 0]
Array(items) == [t |-> "array", items |-> items, arity |-> 0]
Lazy(arity) == [t |-> "lazy", items |-> <<>>, arity |-> arity]

MkNode(ref, id, expanded, children) ==
    [ref |-> ref, id |-> id, type |-> "item", expanded |-> expanded, children |-> children]

\* The value `undefined` where the code expects a node.
UndefinedNode == MkNode(<<"undefined", 0>>, 0, "unset", Absent)
\* The value `null`, the removal sentinel.
NullNode == MkNode(<<"null", 0>>, 0, "unset", Absent)

IsNullish(node) == node.ref[1] \in {"undefined", "null"}

\* !node.children is false for an array (also an empty one) and a function.
Truthy(children) == children.t # "absent"

\* node.children.length: an array's length, a function's declared arity.
Length(children) == IF children.t = "array" THEN Len(children.items) ELSE children.arity

\* node.children[i], i counted from 0: a function has no indexed elements.
Elem(children, i) ==
    IF children.t = "array" /\ i < Len(children.items) THEN children.items[i + 1]
    ELSE UndefinedNode

(***************************************************************************)
(* Key functions the caller may supply.                                    *)
(*   "id"        ({ node }) => node.id       unique in the generated trees *)
(*   "treeIndex" ({ treeIndex }) => treeIndex   depends on the tree index  *)
(*   "type"      ({ node }) => node.type     the same for every node       *)
(***************************************************************************)
KeyFns == {"id", "treeIndex", "type"}

\* Reading a field of `undefined` raises a TypeError.
KeyThrows(keyFn, node) == keyFn # "treeIndex" /\ node = UndefinedNode

getNodeKey(keyFn, node, treeIndex) ==
    CASE keyFn = "id" -> node.id
      [] keyFn = "treeIndex" -> treeIndex
      [] OTHER -> node.type

(***************************************************************************)
(* The trees Init draws from: every forest of at most MaxNodes nodes, at   *)
(* most MaxSpecial of them special.  A node with a non-empty children      *)
(* array is expanded or collapsed; a leaf is plain (no children field,     *)
(* expanded not set) or special: an empty children array, a lazy children  *)
(* function of one parameter, expanded or collapsed, or an expanded one    *)
(* of no parameter.  Nodes are numbered in document order; the number is   *)
(* both the object's identity and its id payload.                          *)
(***************************************************************************)
ParentFlags == {"true", "false"}

NoRef == <<"orig", 0>>

PlainLeaf == MkNode(NoRef, 0, "unset", Absent)

SpecialLeaves ==
    {MkNode(NoRef, 0, "true", Array(<<>>)),
     MkNode(NoRef, 0, "true", Lazy(1)),
     MkNode(NoRef, 0, "false", Lazy(1)),
     MkNode(NoRef, 0, "true", Lazy(0))}

RECURSIVE SpecialCount(_)
SpecialCount(forest) ==
    IF forest = <<>> THEN 0
    ELSE LET n == Head(forest)
         IN (IF n.children.t = "lazy" \/ n.children = Array(<<>>) THEN 1 ELSE 0)
                + SpecialCount(n.children.items) + SpecialCount(Tail(forest))

\* The single-rooted trees of exactly k nodes, not yet numbered, given
\* the forests of fewer nodes: smaller[m + 1] holds those of m nodes.
TreesOf(k, smaller) ==
    IF k = 1 THEN {PlainLeaf} \cup SpecialLeaves
    ELSE {MkNode(NoRef, 0, e, Array(c)) : e \in ParentFlags, c \in smaller[k]}

RECURSIVE Forests(_)
\* Forests(n)[m + 1] holds the forests of exactly m nodes, m from 0 to n,
\* not yet numbered.
Forests(n) ==
    IF n = 0 THEN <<{<<>>}>>
    ELSE LET smaller == Forests(n - 1)
             grown == UNION {{<<t>> \o f : t \in TreesOf(k, smaller),
                                           f \in smaller[n - k + 1]} : k \in 1..n}
         IN  Append(smaller, {g \in grown : SpecialCount(g) <= MaxSpecial})

RECURSIVE NumberForest(_, _)
\* Numbers the nodes of a forest in document order, starting at `next`.
NumberForest(forest, next) ==
    IF forest = <<>> THEN [items |-> <<>>, next |-> next]
    ELSE LET n == Head(forest)
             kids == NumberForest(n.children.items, next + 1)
             rest == NumberForest(Tail(forest), kids.next)
             numbered == [n EXCEPT !.ref = <<"orig", next>>, !.id = next,
                                   !.children.items = kids.items]
         IN [items |-> <<numbered>> \o rest.items, next |-> rest.next]

Trees ==
    LET bySize == Forests(MaxNodes)
    IN  {NumberForest(f, 1).items : f \in UNION {bySize[m + 1] : m \in 0..MaxNodes}}

(***************************************************************************)
(* getVisibleNodeCount                                                     *)
(***************************************************************************)
\* CountsAlone, had it left the expanded flag out.
CountsAlone_IgnoresExpanded(node) ==
    ~Truthy(node.children) \/ node.children.t = "lazy"

\* The guard of a node that counts for 1 only.
CountsAlone(node) ==
    ~Truthy(node.children) \/ node.expanded # "true" \/ node.children.t = "lazy"

RECURSIVE countTraverse(_), countReduce(_, _)
countTraverse(node) ==
    IF CountsAlone(node) THEN 1
    ELSE 1 + countReduce(node.children.items, 0)

\* items.reduce((total, currentNode) => total + traverse(currentNode), total)
countReduce(items, total) ==
    IF items = <<>> THEN total
    ELSE countReduce(Tail(items), total + countTraverse(Head(items)))

getVisibleNodeCount(tree) == countReduce(tree, 0)

(***************************************************************************)
(* getNodeDataAtTreeIndexOrNextIndex                                       *)
(*                                                                         *)
(* A result is what the function returns or that it threw.  keyed is the   *)
(* set of objects the key function was called on.  A field the returned    *)
(* object does not have reads as undefined.                                *)
(***************************************************************************)
FoundResult(node, lowerSiblingCounts, path, keyed) ==
    [kind |-> "found", node |-> node, lowerSiblingCounts |-> lowerSiblingCounts,
     path |-> path, nextIndex |-> JsUndefined, keyed |-> keyed]

NextResult(nextIndex, keyed) ==
    [kind |-> "next", node |-> UndefinedNode, lowerSiblingCounts |-> <<>>,
     path |-> <<>>, nextIndex |-> nextIndex, keyed |-> keyed]

ThrowResult(keyed) ==
    [kind |-> "throw", node |-> UndefinedNode, lowerSiblingCounts |-> <<>>,
     path |-> <<>>, nextIndex |-> JsUndefined, keyed |-> keyed]

\* The default of the ignoreCollapsed parameter, taken when a call omits it.
DefaultIgnoreCollapsed == TRUE

\* The pseudo-root is not considered in the path.
SelfPath(isPseudoRoot, path, keyFn, node, currentIndex) ==
    IF ~isPseudoRoot THEN Append(path, getNodeKey(keyFn, node, currentIndex)) ELSE <<>>

\* Nodes with no children or hidden children.
NoChildrenToSearch(node, ignoreCollapsed) ==
    ~Truthy(node.children) \/ (ignoreCollapsed /\ node.expanded # "true")

\* LowerSiblings, had it counted the child itself.
LowerSiblings_CountsSelf(childCount, i) == childCount - i

\* The lower sibling count of child i (from 0) among childCount children.
LowerSiblings(childCount, i) == childCount - i - 1

\* if (result.node)
HasNode(result) == result.kind = "found" /\ ~IsNullish(result.node)

RECURSIVE getNodeDataAtTreeIndexOrNextIndex(_, _, _, _, _, _, _, _)
RECURSIVE getNodeDataChildren(_, _, _, _, _, _, _, _)
getNodeDataAtTreeIndexOrNextIndex(node, currentIndex, targetIndex, keyFn, path, lowerSiblingCounts, ignoreCollapsed, isPseudoRoot) ==
    LET keyed == IF isPseudoRoot THEN {} ELSE {node.ref}
    IN  IF ~isPseudoRoot /\ KeyThrows(keyFn, node) THEN ThrowResult(keyed)
        ELSE LET selfPath == SelfPath(isPseudoRoot, path, keyFn, node, currentIndex)
             IN  IF StrictEq(currentIndex, targetIndex)
                     THEN FoundResult(node, lowerSiblingCounts, selfPath, keyed)
                 \* node.children of undefined: TypeError
                 ELSE IF node = UndefinedNode THEN ThrowResult(keyed)
                 ELSE IF NoChildrenToSearch(node, ignoreCollapsed)
                     THEN NextResult(Inc(currentIndex), keyed)
                 ELSE getNodeDataChildren(node, 0, Inc(currentIndex), targetIndex, keyFn,
                                          selfPath, lowerSiblingCounts, keyed)

\* The loop over the children, from child i on, childIndex being the index
\* the next child gets.  The recursive call passes neither ignoreCollapsed
\* nor isPseudoRoot, so both take their defaults.
getNodeDataChildren(node, i, childIndex, targetIndex, keyFn, selfPath, lowerSiblingCounts, keyed) ==
    LET childCount == Length(node.children)
    IN  IF i >= childCount THEN NextResult(childIndex, keyed)
        ELSE LET result == getNodeDataAtTreeIndexOrNextIndex(
                                Elem(node.children, i), childIndex, targetIndex, keyFn,
                                selfPath,
                                Append(lowerSiblingCounts, LowerSiblings(childCount, i)),
                                DefaultIgnoreCollapsed, FALSE)
                 seen == keyed \cup result.keyed
             IN  IF result.kind = "throw" \/ HasNode(result)
                     THEN [result EXCEPT !.keyed = seen]
                 ELSE getNodeDataChildren(node, i + 1, result.nextIndex, targetIndex,
                                          keyFn, selfPath, lowerSiblingCounts, seen)

(***************************************************************************)
(* getVisibleNodeInfoAtIndex                                               *)
(***************************************************************************)
PseudoRef == <<"pseudo", 0>>

\* { children: treeData, expanded: true }
ExpandedPseudoRoot(tree) == MkNode(PseudoRef, 0, "true", Array(tree))

NullInfo(keyed) ==
    [kind |-> "null", node |-> NullNode, lowerSiblingCounts |-> <<>>, path |-> <<>>,
     keyed |-> keyed]

getVisibleNodeInfoAtIndex(tree, targetIndex, keyFn) ==
    IF Len(tree) < 1 THEN NullInfo({})
    ELSE LET result == getNodeDataAtTreeIndexOrNextIndex(
                            ExpandedPseudoRoot(tree), Num(-1), targetIndex, keyFn,
                            <<>>, <<>>, DefaultIgnoreCollapsed, TRUE)
         IN  IF result.kind = "throw"
                 THEN [kind |-> "throw", node |-> UndefinedNode,
                       lowerSiblingCounts |-> <<>>, path |-> <<>>, keyed |-> result.keyed]
             ELSE IF HasNode(result)
                 THEN [kind |-> "record", node |-> result.node,
                       lowerSiblingCounts |-> result.lowerSiblingCounts,
                       path |-> result.path, keyed |-> result.keyed]
             ELSE NullInfo(result.keyed)

(***************************************************************************)
(* walkDescendants and walk                                                *)
(*                                                                         *)
(* A callback is modelled by the tree indices at which it returns false;   *)
(* everywhere else it returns undefined.  A walk's result is its return    *)
(* value, the callback's invocations in order (calls) and the objects the  *)
(* key function was called on (keyed).                                     *)
(***************************************************************************)
Callbacks == {[stopAt |-> {}]} \cup {[stopAt |-> {k}] : k \in 0..(MaxNodes - 1)}

CallbackReturnsFalse(callback, selfInfo) == selfInfo.treeIndex.v \in callback.stopAt

WalkResult(value, calls, keyed) == [value |-> value, calls |-> calls, keyed |-> keyed]

\* Self on nodes with no children or hidden children.
NoChildrenToWalk(node, ignoreCollapsed, isPseudoRoot) ==
    ~Truthy(node.children) \/ (node.expanded # "true" /\ ignoreCollapsed /\ ~isPseudoRoot)

\* CutShort, had the loop gone on after a child's walk returned false.
CutShort_Never(childIndex) == FALSE

\* childIndex === false: the walk of a child was cut short.
CutShort(childIndex) == childIndex = JsFalse

RECURSIVE walkDescendants(_, _, _, _, _, _, _, _)
RECURSIVE walkChildren(_, _, _, _, _, _, _, _, _, _)
walkDescendants(callback, keyFn, ignoreCollapsed, isPseudoRoot, node, currentIndex, path, lowerSiblingCounts) ==
    LET selfPath == SelfPath(isPseudoRoot, path, keyFn, node, currentIndex)
        selfInfo == [node |-> node, path |-> selfPath,
                     lowerSiblingCounts |-> lowerSiblingCounts, treeIndex |-> currentIndex]
        calls == IF isPseudoRoot THEN <<>> ELSE <<selfInfo>>
        keyed == IF isPseudoRoot THEN {} ELSE {node.ref}
    IN  IF ~isPseudoRoot /\ CallbackReturnsFalse(callback, selfInfo)
            THEN WalkResult(JsFalse, calls, keyed)
        ELSE IF NoChildrenToWalk(node, ignoreCollapsed, isPseudoRoot)
            THEN WalkResult(currentIndex, calls, keyed)
        \* typeof node.children === 'function': no descendants to get
        ELSE IF node.children.t = "lazy" THEN WalkResult(currentIndex, calls, keyed)
        ELSE walkChildren(callback, keyFn, ignoreCollapsed, node, 0, currentIndex,
                          selfPath, lowerSiblingCounts, calls, keyed)

\* The loop over the children, from child i on; childIndex is the index of
\* the last node visited so far.
walkChildren(callback, keyFn, ignoreCollapsed, node, i, childIndex, selfPath, lowerSiblingCounts, calls, keyed) ==
    LET childCount == Length(node.children)
    IN  IF i >= childCount THEN WalkResult(childIndex, calls, keyed)
        ELSE LET result == walkDescendants(
                                callback, keyFn, ignoreCollapsed, FALSE,
                                Elem(node.children, i), Inc(childIndex), selfPath,
                                Append(lowerSiblingCounts, LowerSiblings(childCount, i)))
                 allCalls == calls \o result.calls
                 allKeyed == keyed \cup result.keyed
             IN  IF CutShort(result.value) THEN WalkResult(JsFalse, allCalls, allKeyed)
                 ELSE walkChildren(callback, keyFn, ignoreCollapsed, node, i + 1,
                                   result.value, selfPath, lowerSiblingCounts,
                                   allCalls, allKeyed)

\* { children: treeData }
PlainPseudoRoot(tree) == MkNode(PseudoRef, 0, "unset", Array(tree))

walk(tree, keyFn, callback, ignoreCollapsed) ==
    IF Len(tree) < 1 THEN WalkResult(JsUndefined, <<>>, {})
    ELSE walkDescendants(callback, keyFn, ignoreCollapsed, TRUE, PlainPseudoRoot(tree),
                         Num(-1), <<>>, <<>>)

(***************************************************************************)
(* getVisibleNodeInfoFlattened                                             *)
(*                                                                         *)
(* A JavaScript array is its length and the positions that hold a value.   *)
(***************************************************************************)
EmptyArray == [length |-> 0, at |-> <<>>]

\* flattened[treeIndex] = { node, lowerSiblingCounts, path }
StoreAt(array, info) ==
    LET i == info.treeIndex.v
        rec == [node |-> info.node, lowerSiblingCounts |-> info.lowerSiblingCounts,
                path |-> info.path]
    IN  [length |-> IF i + 1 > array.length THEN i + 1 ELSE array.length,
         at |-> [j \in DOMAIN array.at \cup {i} |-> IF j = i THEN rec ELSE array.at[j]]]

RECURSIVE StoreAll(_, _)
StoreAll(array, calls) ==
    IF calls = <<>> THEN array
    ELSE StoreAll(StoreAt(array, Head(calls)), Tail(calls))

\* The callback given to walk stores and returns undefined.
Collector == [stopAt |-> {}]

getVisibleNodeInfoFlattened(tree, keyFn) ==
    IF Len(tree) < 1 THEN [kind |-> "array", array |-> EmptyArray, keyed |-> {}]
    ELSE LET walked == walk(tree, keyFn, Collector, TRUE)
         IN  [kind |-> "array", array |-> StoreAll(EmptyArray, walked.calls),
              keyed |-> walked.keyed]

(***************************************************************************)
(* changeNodeAtPath and removeNodeAtPath                                   *)
(*                                                                         *)
(* newNode is a producer function (fn) or a plain value.  A traversal's    *)
(* result is RESULT_MISS, a value (the changed form of the node) or a      *)
(* raised error; produced lists the producer's invocations in order.       *)
(***************************************************************************)
\* A node object the caller made: the replacement.
ReplacementNode == MkNode(<<"new", 0>>, 0, "unset", Absent)

\* newNode: a producer function, which returns the replacement.
Producer == [fn |-> TRUE, value |-> ReplacementNode]

\* newNode: null, the argument removeNodeAtPath passes.
DeleteTheNode == [fn |-> FALSE, value |-> NullNode]

NoNodeFound == "No node found at the given path."
NoChildren == "Path referenced children of node with no children."
TypeError == "TypeError"

Miss(keyed) ==
    [kind |-> "miss", value |-> UndefinedNode, error |-> "", produced |-> <<>>,
     keyed |-> keyed]

Changed(value, produced, keyed) ==
    [kind |-> "value", value |-> value, error |-> "", produced |-> produced,
     keyed |-> keyed]

Raised(error, produced, keyed) ==
    [kind |-> "throw", value |-> UndefinedNode, error |-> error, produced |-> produced,
     keyed |-> keyed]

\* key !== path[pathIndex], the path's positions counted from 0.
KeyMisses(keyFn, key, path, pathIndex) ==
    IF keyFn = "treeIndex" THEN ~StrictEq(key, path[pathIndex + 1])
    ELSE key # path[pathIndex + 1]

\* This is the final location in the path.
FinalLocation(pathIndex, path) == pathIndex >= Len(path) - 1

\* typeof newNode === 'function' ? newNode({ node, treeIndex }) : newNode
ChangedForm(newNode, node, currentTreeIndex, keyed) ==
    IF newNode.fn
        THEN Changed(newNode.value, <<[node |-> node, treeIndex |-> currentTreeIndex]>>, keyed)
    ELSE Changed(newNode.value, <<>>, keyed)

\* The object a spread of `node` makes: a new identity, every field copied.
CopyRef(ref) == <<"copy", ref[2]>>

\* ReplaceChild, had the second slice started at i: the old node is kept
\* after the new one.
ReplaceChild_KeepsOld(items, i, result) ==
    SubSeq(items, 1, i) \o <<result>> \o SubSeq(items, i + 1, Len(items))

\* [...children.slice(0, i), result, ...children.slice(i + 1)]
ReplaceChild(items, i, result) ==
    SubSeq(items, 1, i) \o <<result>> \o SubSeq(items, i + 2, Len(items))

\* [...children.slice(0, i), ...children.slice(i + 1)]
DeleteChild(items, i) == SubSeq(items, 1, i) \o SubSeq(items, i + 2, Len(items))

\* { ...node, children: [...] }, the result truthy or falsy
Rebuilt(node, i, result) ==
    [node EXCEPT !.ref = CopyRef(node.ref),
                 !.children = Array(IF ~IsNullish(result)
                                        THEN ReplaceChild(node.children.items, i, result)
                                    ELSE DeleteChild(node.children.items, i))]

RECURSIVE traverse(_, _, _, _, _, _, _, _)
RECURSIVE traverseChildren(_, _, _, _, _, _, _, _, _)
traverse(isPseudoRoot, node, currentTreeIndex, pathIndex, path, newNode, keyFn, ignoreCollapsed) ==
    LET keyed == IF isPseudoRoot THEN {} ELSE {node.ref}
    IN  IF ~isPseudoRoot /\ KeyThrows(keyFn, node) THEN Raised(TypeError, <<>>, keyed)
        ELSE IF ~isPseudoRoot
                /\ KeyMisses(keyFn, getNodeKey(keyFn, node, currentTreeIndex), path, pathIndex)
            THEN Miss(keyed)
        ELSE IF FinalLocation(pathIndex, path)
            THEN ChangedForm(newNode, node, currentTreeIndex, keyed)
        \* node.children of undefined: TypeError
        ELSE IF node = UndefinedNode THEN Raised(TypeError, <<>>, keyed)
        ELSE IF ~Truthy(node.children) THEN Raised(NoChildren, <<>>, keyed)
        ELSE traverseChildren(node, 0, Inc(currentTreeIndex), pathIndex, path, newNode,
                              keyFn, ignoreCollapsed, keyed)

\* The loop over the children, from child i on, nextTreeIndex being the
\* index the next child gets.
traverseChildren(node, i, nextTreeIndex, pathIndex, path, newNode, keyFn, ignoreCollapsed, keyed) ==
    IF i >= Length(node.children) THEN Miss(keyed)
    ELSE LET child == Elem(node.children, i)
             result == traverse(FALSE, child, nextTreeIndex, pathIndex + 1, path,
                                newNode, keyFn, ignoreCollapsed)
             seen == keyed \cup result.keyed
         IN  IF result.kind = "throw" THEN [result EXCEPT !.keyed = seen]
             ELSE IF result.kind = "value"
                 \* a function has no slice method: TypeError
                 THEN IF node.children.t = "lazy"
                          THEN Raised(TypeError, result.produced, seen)
                      ELSE Changed(Rebuilt(node, i, result.value), result.produced, seen)
             ELSE LET skipped == getNodeDataAtTreeIndexOrNextIndex(
                                     child, nextTreeIndex, Num(-1), keyFn, <<>>, <<>>,
                                     ignoreCollapsed, FALSE)
                      all == seen \cup skipped.keyed
                  IN  IF skipped.kind = "throw" THEN Raised(TypeError, <<>>, all)
                      ELSE traverseChildren(node, i + 1, skipped.nextIndex, pathIndex,
                                            path, newNode, keyFn, ignoreCollapsed, all)

ChangeThrown(error, produced, keyed) ==
    [kind |-> "throw", error |-> error, children |-> Absent, produced |-> produced,
     keyed |-> keyed]

changeNodeAtPath(tree, path, newNode, keyFn, ignoreCollapsed) ==
    LET result == traverse(TRUE, PlainPseudoRoot(tree), Num(-1), -1, path, newNode,
                           keyFn, ignoreCollapsed)
    IN  IF result.kind = "throw"
            THEN ChangeThrown(result.error, result.produced, result.keyed)
        ELSE IF result.kind = "miss" THEN ChangeThrown(NoNodeFound, <<>>, result.keyed)
        \* result.children of null: TypeError
        ELSE IF IsNullish(result.value)
            THEN ChangeThrown(TypeError, result.produced, result.keyed)
        ELSE [kind |-> "returned", error |-> "", children |-> result.value.children,
              produced |-> result.produced, keyed |-> result.keyed]

removeNodeAtPath(tree, path, keyFn, ignoreCollapsed) ==
    changeNodeAtPath(tree, path, DeleteTheNode, keyFn, ignoreCollapsed)

(***************************************************************************)
(* The paths a caller passes: the empty path, the paths a walk of the tree *)
(* reports (collapsed nodes skipped or not), and each of these with one    *)
(* more key: the key a first child would have, or a key no node has.       *)
(***************************************************************************)
FurtherKeys(keyFn, path) ==
    CASE keyFn = "id" -> {0}
      [] keyFn = "treeIndex" ->
            {Num(IF path = <<>> THEN 0 ELSE path[Len(path)].v + 1), Num(MaxNodes)}
      [] OTHER -> {"item", "other"}

WalkedPaths(tree, keyFn) ==
    UNION {LET calls == walk(tree, keyFn, Collector, ic).calls
           IN  {calls[j].path : j \in 1..Len(calls)} : ic \in BOOLEAN}

CallerPaths(tree, keyFn) ==
    LET base == {<<>>} \cup WalkedPaths(tree, keyFn)
    IN  base \cup UNION {{Append(p, k) : k \in FurtherKeys(keyFn, p)} : p \in base}

(***************************************************************************)
(* The state machine.                                                      *)
(***************************************************************************)
NoCall == [op |-> "none"]

Init ==
    /\ treeData \in Trees
    /\ call = NoCall
    /\ ret = [kind |-> "none"]

\* The caller asks for the number of visible nodes.
GetVisibleNodeCount ==
    /\ call = NoCall
    /\ call' = [op |-> "getVisibleNodeCount"]
    /\ ret' = [kind |-> "count", count |-> getVisibleNodeCount(treeData)]
    /\ UNCHANGED treeData

\* The caller resolves a linear index.
GetVisibleNodeInfoAtIndex ==
    /\ call = NoCall
    /\ \E keyFn \in KeyFns, index \in -1..MaxNodes :
        /\ call' = [op |-> "getVisibleNodeInfoAtIndex", keyFn |-> keyFn, index |-> index]
        /\ ret' = getVisibleNodeInfoAtIndex(treeData, Num(index), keyFn)
    /\ UNCHANGED treeData

\* The caller walks the tree with a callback.
Walk ==
    /\ call = NoCall
    /\ \E keyFn \in KeyFns, callback \in Callbacks, ignoreCollapsed \in BOOLEAN :
        /\ call' = [op |-> "walk", keyFn |-> keyFn, callback |-> callback,
                    ignoreCollapsed |-> ignoreCollapsed]
        /\ ret' = walk(treeData, keyFn, callback, ignoreCollapsed)
    /\ UNCHANGED treeData

\* The caller flattens the visible nodes.
GetVisibleNodeInfoFlattened ==
    /\ call = NoCall
    /\ \E keyFn \in KeyFns :
        /\ call' = [op |-> "getVisibleNodeInfoFlattened", keyFn |-> keyFn]
        /\ ret' = getVisibleNodeInfoFlattened(treeData, keyFn)
    /\ UNCHANGED treeData

\* The caller replaces the node at a path.
ChangeNodeAtPath ==
    /\ call = NoCall
    /\ \E keyFn \in KeyFns, ignoreCollapsed \in BOOLEAN :
        \E path \in CallerPaths(treeData, keyFn) :
            /\ call' = [op |-> "changeNodeAtPath", keyFn |-> keyFn, path |-> path,
                        newNode |-> Producer, ignoreCollapsed |-> ignoreCollapsed]
            /\ ret' = changeNodeAtPath(treeData, path, Producer, keyFn, ignoreCollapsed)
    /\ UNCHANGED treeData

\* The caller removes the node at a path.
RemoveNodeAtPath ==
    /\ call = NoCall
    /\ \E keyFn \in KeyFns, ignoreCollapsed \in BOOLEAN :
        \E path \in CallerPaths(treeData, keyFn) :
            /\ call' = [op |-> "removeNodeAtPath", keyFn |-> keyFn, path |-> path,
                        newNode |-> DeleteTheNode, ignoreCollapsed |-> ignoreCollapsed]
            /\ ret' = removeNodeAtPath(treeData, path, keyFn, ignoreCollapsed)
    /\ UNCHANGED treeData

Next ==
    \/ GetVisibleNodeCount
    \/ GetVisibleNodeInfoAtIndex
    \/ Walk
    \/ GetVisibleNodeInfoFlattened
    \/ ChangeNodeAtPath
    \/ RemoveNodeAtPath

Spec == Init /\ [][Next]_vars

(***************************************************************************)
(* A behaviour makes one call, so every behaviour of Spec is a behaviour   *)
(* of one of the specifications below, each of a part of the interface.    *)
(***************************************************************************)
NextCount ==
    \/ GetVisibleNodeCount
    \/ GetVisibleNodeInfoFlattened

SpecCount == Init /\ [][NextCount]_vars

SpecLookup == Init /\ [][GetVisibleNodeInfoAtIndex]_vars

SpecWalk == Init /\ [][Walk]_vars

NextEdit ==
    \/ ChangeNodeAtPath
    \/ RemoveNodeAtPath

SpecEdit == Init /\ [][NextEdit]_vars

(***************************************************************************)
(* Reference notions the properties are stated with.  A position is the    *)
(* sequence of child numbers (from 1) leading from the root sequence to a  *)
(* node.  Rows lists the positions of the nodes a depth-first pre-order    *)
(* walk meets when it enters the children of a node only if they are a     *)
(* concrete sequence and, collapsed state being honoured, the node's       *)
(* expanded flag is exactly true.                                          *)
(***************************************************************************)
ShowsChildren(node, honourCollapsed) ==
    node.children.t = "array" /\ (~honourCollapsed \/ node.expanded = "true")

RECURSIVE RowsFrom(_, _, _, _)
RowsFrom(items, c, prefix, honourCollapsed) ==
    IF c > Len(items) THEN <<>>
    ELSE LET pos == Append(prefix, c)
         IN  <<pos>>
                 \o (IF ShowsChildren(items[c], honourCollapsed)
                         THEN RowsFrom(items[c].children.items, 1, pos, honourCollapsed)
                     ELSE <<>>)
                 \o RowsFrom(items, c + 1, prefix, honourCollapsed)

Rows(tree, honourCollapsed) == RowsFrom(tree, 1, <<>>, honourCollapsed)

RECURSIVE SiblingsAt(_, _)
\* The children sequence the node at pos is an element of.
SiblingsAt(items, pos) ==
    IF Len(pos) = 1 THEN items
    ELSE SiblingsAt(items[pos[1]].children.items, Tail(pos))

NodeAt(tree, pos) == SiblingsAt(tree, pos)[pos[Len(pos)]]

Prefix(pos, j) == SubSeq(pos, 1, j)

\* The linear index of the node at pos: its rank, from 0, in rows.
IndexIn(rows, pos) == (CHOOSE r \in 1..Len(rows) : rows[r] = pos) - 1

\* The record the data model prescribes for the r-th row (from 1).
RowRecord(tree, rows, r, keyFn) ==
    LET pos == rows[r]
    IN  [node |-> NodeAt(tree, pos),
         path |-> [j \in 1..Len(pos) |->
                      getNodeKey(keyFn, NodeAt(tree, Prefix(pos, j)),
                                 Num(IndexIn(rows, Prefix(pos, j))))],
         lowerSiblingCounts |-> [j \in 1..Len(pos) |->
                      Len(SiblingsAt(tree, Prefix(pos, j))) - pos[j]]]

VisibleRows == Rows(treeData, TRUE)

RECURSIVE HasLazy(_)
\* Some node of the forest has a lazy children function.
HasLazy(items) ==
    \E c \in 1..Len(items) :
        items[c].children.t = "lazy" \/ HasLazy(items[c].children.items)

(***************************************************************************)
(* C2: the visible count equals the length of the flattened array, which   *)
(* holds a record at every position below its length; and the count is    *)
(* the number of rows of the reference walk, in which a node brings its    *)
(* children in only if they are a concrete sequence and expanded is        *)
(* exactly true, and counts for exactly 1 otherwise.                       *)
(***************************************************************************)
C2_VisibleCountIsFlattenedLength ==
    /\ call.op = "getVisibleNodeCount" =>
        /\ ret.count = Len(VisibleRows)
        /\ \A keyFn \in KeyFns :
            ret.count = getVisibleNodeInfoFlattened(treeData, keyFn).array.length
    /\ call.op = "getVisibleNodeInfoFlattened" =>
        /\ ret.array.length = getVisibleNodeCount(treeData)
        /\ DOMAIN ret.array.at = 0..(ret.array.length - 1)

\* A count of 2 for two roots, a collapsed one with a child and an
\* expanded one with lazy children.
C2_Witness ==
    /\ call.op = "getVisibleNodeCount"
    /\ ret.count = 2
    /\ Len(treeData) = 2
    /\ treeData[1].expanded = "false" /\ Len(treeData[1].children.items) = 1
    /\ treeData[2].expanded = "true" /\ treeData[2].children.t = "lazy"

(***************************************************************************)
(* C6: walk calls the callback on the rows of the reference walk in order, *)
(* with treeIndex 0, 1, 2, ...; when the callback returns false at index k *)
(* it is not called again: there are exactly k + 1 calls and walk returns  *)
(* false.                                                                  *)
(***************************************************************************)
C6_WalkOrderAndAbort ==
    call.op = "walk" =>
        LET rows == Rows(treeData, call.ignoreCollapsed)
            stops == {k \in call.callback.stopAt : k < Len(rows)}
            made == IF stops = {} THEN Len(rows)
                    ELSE (CHOOSE k \in stops : \A m \in stops : k <= m) + 1
        IN  /\ Len(ret.calls) = made
            /\ \A j \in 1..Len(ret.calls) :
                /\ ret.calls[j].treeIndex = Num(j - 1)
                /\ ret.calls[j].node = NodeAt(treeData, rows[j])
            /\ (ret.value = JsFalse) <=> (stops # {})

\* A walk cut short at a node that has visible children and later siblings.
C6_Witness ==
    /\ call.op = "walk"
    /\ call.callback.stopAt = {0}
    /\ call.ignoreCollapsed
    /\ ret.value = JsFalse
    /\ Len(ret.calls) = 1
    /\ Len(treeData) = 2
    /\ treeData[1].expanded = "true" /\ Len(treeData[1].children.items) = 2

(***************************************************************************)
(* C7: the record returned for a visible index i holds the i-th row of the *)
(* reference walk; its path has one key per level, the key function        *)
(* applied to the ancestor at that level with the ancestor's own linear    *)
(* index; its lowerSiblingCounts has one entry per level, the number of    *)
(* siblings after the ancestor at that level.                              *)
(***************************************************************************)
C7_ResolvedRecord ==
    (/\ call.op = "getVisibleNodeInfoAtIndex"
     /\ call.index >= 0 /\ call.index < Len(VisibleRows)
     /\ ret.kind = "record") =>
        LET pos == VisibleRows[call.index + 1]
            expected == RowRecord(treeData, VisibleRows, call.index + 1, call.keyFn)
        IN  /\ ret.node = expected.node
            /\ Len(ret.path) = Len(pos) /\ ret.path = expected.path
            /\ Len(ret.lowerSiblingCounts) = Len(pos)
            /\ ret.lowerSiblingCounts = expected.lowerSiblingCounts

\* Index 2 resolved to the fourth node in document order, at depth 1, past
\* a collapsed node whose child is hidden, keyed by tree index.
C7_Witness ==
    /\ call.op = "getVisibleNodeInfoAtIndex"
    /\ call.index = 2 /\ call.keyFn = "treeIndex"
    /\ ret.kind = "record"
    /\ ret.node.id = 4
    /\ ret.path = <<Num(1), Num(2)>>
    /\ ret.lowerSiblingCounts = <<0, 0>>

(***************************************************************************)
(* C4: a tree returned for a non-empty path is the input tree with one     *)
(* slot edited: some position with one level per path key, whose keys are  *)
(* the path's (for a key function that does not read the tree index),      *)
(* holds the new value, or is spliced out when the new value is null;      *)
(* every node off that position is the same object in the same order, and  *)
(* each ancestor on it is a new object with its other fields kept.         *)
(***************************************************************************)
RECURSIVE EditAt(_, _, _)
\* items with the slot at pos edited as the claim prescribes.
EditAt(items, pos, value) ==
    LET c == pos[1]
        old == items[c]
    IN  IF Len(pos) > 1
            THEN [items EXCEPT ![c] =
                     [ref |-> <<"copy", old.ref[2]>>, id |-> old.id, type |-> old.type,
                      expanded |-> old.expanded,
                      children |-> Array(EditAt(old.children.items, Tail(pos), value))]]
        ELSE IF IsNullish(value)
            THEN [j \in 1..(Len(items) - 1) |-> IF j < c THEN items[j] ELSE items[j + 1]]
        ELSE [items EXCEPT ![c] = value]

KeysAlong(tree, pos, keyFn, path) ==
    keyFn = "treeIndex"
        \/ \A j \in 1..Len(pos) :
               getNodeKey(keyFn, NodeAt(tree, Prefix(pos, j)), Num(0)) = path[j]

C4_OnlyAddressedSlotChanges ==
    (/\ call.op \in {"changeNodeAtPath", "removeNodeAtPath"}
     /\ Len(call.path) >= 1
     /\ ret.kind = "returned") =>
        LET all == Rows(treeData, FALSE)
        IN  \E r \in 1..Len(all) :
                /\ Len(all[r]) = Len(call.path)
                /\ KeysAlong(treeData, all[r], call.keyFn, call.path)
                /\ ret.children = Array(EditAt(treeData, all[r], call.newNode.value))

\* The first of two children removed under the first of two roots.
C4_Witness ==
    /\ call.op = "removeNodeAtPath"
    /\ call.keyFn = "id" /\ call.path = <<1, 2>>
    /\ Len(treeData) = 2 /\ Len(treeData[1].children.items) = 2
    /\ ret.kind = "returned"
    /\ Len(ret.children.items) = 2
    /\ ret.children.items[2] = treeData[2]
    /\ ret.children.items[1].children.items = <<treeData[1].children.items[2]>>

(***************************************************************************)
(* C1: for every index i below the visible count, the record the           *)
(* flattened array holds at i equals the record the index lookup returns   *)
(* for i: same node, same path, same lowerSiblingCounts.                   *)
(***************************************************************************)
FlattenedAgrees ==
    LET flat == getVisibleNodeInfoFlattened(treeData, call.keyFn).array
    IN  /\ ret.kind = "record"
        /\ call.index \in DOMAIN flat.at
        /\ flat.at[call.index] =
               [node |-> ret.node, lowerSiblingCounts |-> ret.lowerSiblingCounts,
                path |-> ret.path]

C1_FlattenedAgreesWithLookup ==
    (/\ call.op = "getVisibleNodeInfoAtIndex"
     /\ call.index >= 0 /\ call.index < getVisibleNodeCount(treeData)) =>
        FlattenedAgrees

\* C1 on the trees without lazy children.
C1_OnConcreteTrees == HasLazy(treeData) \/ C1_FlattenedAgreesWithLookup

(***************************************************************************)
(* C9: for a non-negative index the lookup never raises; it returns null   *)
(* exactly when the tree is empty or the index is at or past the visible   *)
(* count, and a record with a node for every index below the count.        *)
(***************************************************************************)
C9_LookupTotal ==
    (call.op = "getVisibleNodeInfoAtIndex" /\ call.index >= 0) =>
        /\ ret.kind # "throw"
        /\ (ret.kind = "null")
               <=> (treeData = <<>> \/ call.index >= getVisibleNodeCount(treeData))
        /\ call.index < getVisibleNodeCount(treeData) =>
               (ret.kind = "record" /\ ~IsNullish(ret.node))

\* C9 on the trees without lazy children.
C9_OnConcreteTrees == HasLazy(treeData) \/ C9_LookupTotal

(***************************************************************************)
(* C3: round trip.  For every visible index i and every key function       *)
(* whose keys are unique among siblings, the path the lookup returns for   *)
(* i, given to changeNodeAtPath with a producer function, makes the        *)
(* producer run exactly once, on the node the lookup returned, with        *)
(* treeIndex i.                                                            *)
(***************************************************************************)
\* No two visible siblings get the same key.
UniqueSiblingKeys(tree, keyFn) ==
    LET rows == Rows(tree, TRUE)
        keyOf(r) == getNodeKey(keyFn, NodeAt(tree, rows[r]), Num(r - 1))
    IN  \A q, r \in 1..Len(rows) :
            (q # r /\ Prefix(rows[q], Len(rows[q]) - 1) = Prefix(rows[r], Len(rows[r]) - 1))
                => keyOf(q) # keyOf(r)

C3_RoundTrip ==
    (/\ call.op = "getVisibleNodeInfoAtIndex"
     /\ call.index >= 0 /\ call.index < getVisibleNodeCount(treeData)
     /\ UniqueSiblingKeys(treeData, call.keyFn)) =>
        /\ ret.kind = "record"
        /\ changeNodeAtPath(treeData, ret.path, Producer, call.keyFn,
                            DefaultIgnoreCollapsed).produced
               = <<[node |-> ret.node, treeIndex |-> Num(call.index)]>>

\* C3 on the trees without lazy children.
C3_OnConcreteTrees == HasLazy(treeData) \/ C3_RoundTrip

(***************************************************************************)
(* C5: a non-empty path that is not in the tree makes changeNodeAtPath     *)
(* and removeNodeAtPath raise, without the producer having run and         *)
(* without a tree returned.  A path is surely not in the tree when no      *)
(* position with one level per key carries the path's keys (a tree index   *)
(* key being any index a node of the tree could have).                     *)
(***************************************************************************)
CouldBeKey(keyFn, node, key, size) ==
    IF keyFn = "treeIndex" THEN key.v \in 0..(size - 1)
    ELSE getNodeKey(keyFn, node, Num(0)) = key

PathAbsent(tree, keyFn, path) ==
    LET all == Rows(tree, FALSE)
    IN  ~\E r \in 1..Len(all) :
            /\ Len(all[r]) = Len(path)
            /\ \A j \in 1..Len(path) :
                   CouldBeKey(keyFn, NodeAt(tree, Prefix(all[r], j)), path[j], Len(all))

C5_AbsentPathRaises ==
    (/\ call.op \in {"changeNodeAtPath", "removeNodeAtPath"}
     /\ Len(call.path) >= 1
     /\ PathAbsent(treeData, call.keyFn, call.path)) =>
        ret.kind = "throw" /\ ret.produced = <<>>

\* C5 on the trees without lazy children.
C5_OnConcreteTrees == HasLazy(treeData) \/ C5_AbsentPathRaises

(***************************************************************************)
(* C8: the pseudo-root is never the node a lookup returns, never given to  *)
(* the key function, the walk callback or the producer, and no returned    *)
(* path holds a key for it: for every key-path, of any length, and every   *)
(* target index from 0 on (the indices the lookup is specified for).       *)
(***************************************************************************)
C8_PseudoRootHidden ==
    /\ (call.op = "getVisibleNodeInfoAtIndex" /\ call.index >= 0) =>
        /\ ret.kind = "record" => ret.node.ref # PseudoRef
        /\ PseudoRef \notin ret.keyed
        /\ (ret.kind = "record" /\ call.index \in 0..(Len(VisibleRows) - 1)) =>
               Len(ret.path) = Len(VisibleRows[call.index + 1])
    /\ call.op = "walk" =>
        /\ \A j \in 1..Len(ret.calls) :
            /\ ret.calls[j].node.ref # PseudoRef
            /\ Len(ret.calls[j].path) = Len(Rows(treeData, call.ignoreCollapsed)[j])
        /\ PseudoRef \notin ret.keyed
    /\ call.op = "getVisibleNodeInfoFlattened" => PseudoRef \notin ret.keyed
    /\ call.op \in {"changeNodeAtPath", "removeNodeAtPath"} =>
        /\ \A j \in 1..Len(ret.produced) : ret.produced[j].node.ref # PseudoRef
        /\ PseudoRef \notin ret.keyed

\* C8 for the non-empty paths.
C8_ForNonEmptyPaths ==
    \/ call.op \in {"changeNodeAtPath", "removeNodeAtPath"} /\ call.path = <<>>
    \/ C8_PseudoRootHidden

\* C8 at target index -1: the lookup's answer is not the pseudo-root.
C8_AtIndexMinusOne ==
    (call.op = "getVisibleNodeInfoAtIndex" /\ call.index = -1 /\ ret.kind = "record")
        => ret.node.ref # PseudoRef

(***************************************************************************)
(* C10: with ignoreCollapsed = false, changeNodeAtPath given the path that *)
(* walk(ignoreCollapsed = false) reported for a node passes the producer   *)
(* that node and the treeIndex walk reported.  Stated on the trees without *)
(* lazy children.                                                          *)
(***************************************************************************)
C10_SameNumberingAsWalk ==
    (/\ call.op = "changeNodeAtPath"
     /\ call.newNode.fn /\ ~call.ignoreCollapsed
     /\ ~HasLazy(treeData)) =>
        LET walked == walk(treeData, call.keyFn, Collector, FALSE).calls
        IN  \A j \in 1..Len(walked) :
                (walked[j].path = call.path /\ call.keyFn # "type") =>
                    /\ ret.kind = "returned"
                    /\ ret.produced = <<[node |-> walked[j].node,
                                         treeIndex |-> walked[j].treeIndex]>>

\* C10 where no node skipped on the way has a collapsed descendant with
\* children: on the trees whose nodes with children are all expanded.
C10_OnExpandedTrees ==
    (\E r \in 1..Len(Rows(treeData, FALSE)) :
        LET n == NodeAt(treeData, Rows(treeData, FALSE)[r])
        IN  Truthy(n.children) /\ n.expanded # "true")
    \/ C10_SameNumberingAsWalk

====
